---- MODULE Spec2Model ----
(***************************************************************************)
(* A model of agave's cpu-utils affinity module                            *)
(* (src/cpu-utils/src/affinity.rs): the range-list parser, topology        *)
(* discovery (max_cpu_id, cpu_count), isolation detection (isolated_cpus)  *)
(* and the affinity controller (set_cpu_affinity, cpu_affinity).           *)
(*                                                                         *)
(* Text is modelled as a sequence of one-character strings, so that trim,  *)
(* split, find and parse::<usize> are computed character by character.     *)
(* The kernel (sched_setaffinity, sched_getaffinity, sysconf, sysfs) is    *)
(* the environment: the files' contents and the processor count are chosen *)
(* in the initial state, a syscall may be rejected by the kernel.          *)
(***************************************************************************)
EXTENDS Integers, Sequences, FiniteSets, TLC

VARIABLES
    platform,     \* "linux" or "other": which cfg(target_os) variant was built
    present,      \* /sys/devices/system/cpu/present as read_to_string sees it
    isolated,     \* /sys/devices/system/cpu/isolated as read_to_string sees it
    nprocessors,  \* what sysconf(_SC_NPROCESSORS_CONF) returns
    mask,         \* mask[t]: the kernel's affinity mask of thread t
    text,         \* the &str handed to parse_cpu_range_list
    topology,     \* topology[cpu]: the per-CPU topology descriptor of cpu
    last          \* the last call: who, what, arguments, result, I/O performed

vars ==
    <<platform, present, isolated, nprocessors, mask, text, topology, last>>

----------------------------------------------------------------------------
(* Bounds of the model *)

\* Longest text enumerated exhaustively over Alphabet.
MaxLen == 4
\* Longest argument list handed to set_cpu_affinity.
MaxCpus == 2
\* Number of threads calling into the module.
NumThreads == 2
\* Highest CPU ID with a topology descriptor.
MaxTopoCpu == 2
\* Width of a usize in bits, scaled down from 64 so that the checker's
\* integers hold every usize and the sum that overflows one.
UsizeBits == 16

----------------------------------------------------------------------------
(* Program constants *)

CPU_SETSIZE == 1024

RECURSIVE Pow2(_)
Pow2(n) == IF n = 0 THEN 1 ELSE 2 * Pow2(n - 1)

\* usize::MAX
USIZE_MAX == Pow2(UsizeBits) - 1

----------------------------------------------------------------------------
(* Text: str::trim, str::split, str::find, str::parse::<usize> *)

DigitChars == {"0", "1", "2", "3", "4", "5", "6", "7", "8", "9"}

IsDigit(c) == c \in DigitChars

DigitVal(c) ==
    CASE c = "0" -> 0 [] c = "1" -> 1 [] c = "2" -> 2 [] c = "3" -> 3
      [] c = "4" -> 4 [] c = "5" -> 5 [] c = "6" -> 6 [] c = "7" -> 7
      [] c = "8" -> 8 [] c = "9" -> 9

IsWhitespace(c) == c \in {" ", "\t", "\n", "\r"}

RECURSIVE TrimStart(_)
TrimStart(s) ==
    IF s # <<>> /\ IsWhitespace(Head(s)) THEN TrimStart(Tail(s)) ELSE s

RECURSIVE TrimEnd(_)
TrimEnd(s) ==
    IF s # <<>> /\ IsWhitespace(s[Len(s)])
    THEN TrimEnd(SubSeq(s, 1, Len(s) - 1))
    ELSE s

\* str::trim
Trim(s) == TrimEnd(TrimStart(s))

\* str::find(char): the position of the first occurrence, 0 for None.
Find(s, c) ==
    IF \E i \in 1..Len(s) : s[i] = c
    THEN CHOOSE i \in 1..Len(s) : s[i] = c /\ \A j \in 1..(i - 1) : s[j] # c
    ELSE 0

\* str::split(char): the pieces between the separators, in order; a text
\* without separator (the empty text too) is one piece.
RECURSIVE Split(_, _)
Split(s, c) ==
    LET p == Find(s, c)
    IN  IF p = 0
        THEN <<s>>
        ELSE <<SubSeq(s, 1, p - 1)>> \o Split(SubSeq(s, p + 1, Len(s)), c)

\* Iterator::nth(n) with n counted from 0.
Nth(it, n) ==
    IF n + 1 <= Len(it) THEN [some |-> TRUE, val |-> it[n + 1]]
    ELSE [some |-> FALSE]

RECURSIVE DigitsValue(_)
DigitsValue(d) ==
    IF d = <<>> THEN 0
    ELSE DigitsValue(SubSeq(d, 1, Len(d) - 1)) * 10 + DigitVal(d[Len(d)])

\* Variant: no sign handling and the empty text read as 0.
ParseUsizeLenient(s) ==
    IF \E i \in 1..Len(s) : ~IsDigit(s[i])
    THEN [ok |-> FALSE]
    ELSE [ok |-> TRUE, val |-> DigitsValue(s)]

\* str::parse::<usize>: an optional leading '+', then one or more decimal
\* digits; anything else (the empty text, a '-', a blank) is an error, and
\* so is a value above usize::MAX.
ParseUsize(s) ==
    LET d == IF s # <<>> /\ Head(s) = "+" THEN Tail(s) ELSE s
    IN  IF d = <<>> \/ \E i \in 1..Len(d) : ~IsDigit(d[i])
        THEN [ok |-> FALSE]
        ELSE IF DigitsValue(d) > USIZE_MAX
        THEN [ok |-> FALSE]
        ELSE [ok |-> TRUE, val |-> DigitsValue(d)]

----------------------------------------------------------------------------
(* Results: Result<T, CpuAffinityError> *)

Ok(v) == [kind |-> "Ok", val |-> v]
Err(e) == [kind |-> "Err", err |-> e]
\* A Rust panic: the call does not return.
Panic == [kind |-> "Panic"]

SystemCall(msg) == [type |-> "SystemCall", msg |-> msg]
NotSupported == [type |-> "NotSupported"]
InvalidCpu(cpu, max) == [type |-> "InvalidCpu", cpu |-> cpu, max |-> max]
EmptyCpuList == [type |-> "EmptyCpuList"]
InvalidPhysicalCore(core, max) ==
    [type |-> "InvalidPhysicalCore", core |-> core, max |-> max]
\* format!("<prefix>{}", part): the prefix literal followed by part's characters.
ParseError(prefix, part) == [type |-> "ParseError", detail |-> <<prefix>> \o part]

\* Vec::sort_unstable of the elements of a HashSet<usize>.
RECURSIVE SortUnstable(_)
SortUnstable(S) ==
    IF S = {} THEN <<>>
    ELSE LET m == CHOOSE x \in S : \A y \in S : x <= y
         IN  <<m>> \o SortUnstable(S \ {m})

----------------------------------------------------------------------------
(* parse_cpu_range_list *)

\* Variant: the range without its end, as `start..end` would give.
RangeCpusExclusive(start, end) == start .. (end - 1)

\* Variant: a range read in either direction.
RangeCpusEitherWay(start, end) ==
    IF start <= end THEN start .. end ELSE end .. start

\* The CPUs `for cpu in start..=end` inserts.
RangeCpus(start, end) == start .. end

\* The body of `for part in s.split(',')` over the parts left, `cpus` being the
\* HashSet so far; ends with the collect and sort, or with the first error.
RECURSIVE ParseParts(_, _)
ParseParts(parts, cpus) ==
    IF parts = <<>> THEN Ok(SortUnstable(cpus))
    ELSE
      LET part == Trim(Head(parts))
          dash_pos == Find(part, "-")
      IN  IF part = <<>> THEN ParseParts(Tail(parts), cpus)
          ELSE IF dash_pos # 0 THEN
            LET start == ParseUsize(Trim(SubSeq(part, 1, dash_pos - 1)))
                end == ParseUsize(Trim(SubSeq(part, dash_pos + 1, Len(part))))
            IN  IF ~start.ok \/ ~end.ok
                THEN Err(ParseError("Invalid CPU range: ", part))
                ELSE ParseParts(Tail(parts), cpus \cup RangeCpus(start.val, end.val))
          ELSE
            LET cpu == ParseUsize(part)
            IN  IF ~cpu.ok
                THEN Err(ParseError("Invalid CPU ID: ", part))
                ELSE ParseParts(Tail(parts), cpus \cup {cpu.val})

parse_cpu_range_list(s) == ParseParts(Split(s, ","), {})

----------------------------------------------------------------------------
(* The environment: files, threads, CPU IDs *)

NoFile == [ok |-> FALSE]
File(content) == [ok |-> TRUE, content |-> content]

Threads == 1..NumThreads
MainThread == 1

\* The CPU IDs callers pass: the lowest one and those around CPU_SETSIZE.
CpuIds == {0, CPU_SETSIZE - 1, CPU_SETSIZE, CPU_SETSIZE + 1}

\* The argument lists of set_cpu_affinity (duplicates allowed).
CpuArgs == UNION {[1..n -> CpuIds] : n \in 0..MaxCpus}

Range(f) == {f[i] : i \in DOMAIN f}

\* The orders in which a HashSet may hand out its elements.
Orders(S) ==
    {o \in [1..Cardinality(S) -> S] : \A i, j \in DOMAIN o : o[i] = o[j] => i = j}

\* The mask a new thread starts with: every CPU a cpu_set_t can name.
InitialMask == {c \in CpuIds : c < CPU_SETSIZE}

ReadPresent == "read /sys/devices/system/cpu/present"
ReadIsolated == "read /sys/devices/system/cpu/isolated"

----------------------------------------------------------------------------
(* max_cpu_id, cpu_count *)

\* Variant: the low end of the range, split('-').nth(0).
PresentMaxLow ==
    IF ~present.ok THEN [ok |-> FALSE]
    ELSE ParseUsize(Split(Trim(present.content), "-")[1])

\* The sysfs branch of max_cpu_id: Some(max) when the present file is read and
\* parsed, None when the code falls through to the fallback.
PresentMax ==
    IF ~present.ok THEN [ok |-> FALSE]
    ELSE
      LET content == Trim(present.content)
          range == Nth(Split(content, "-"), 1)
      IN  IF range.some THEN ParseUsize(range.val) ELSE ParseUsize(content)

SaturatingSub(a, b) == IF a >= b THEN a - b ELSE 0

\* Variant: no error for a non-positive count, which saturates to 0.
SysconfMaxSaturating ==
    Ok(SaturatingSub(IF nprocessors > 0 THEN nprocessors ELSE 0, 1))

\* The sysconf branch of max_cpu_id.
SysconfMax ==
    LET count == nprocessors
    IN  IF count <= 0
        THEN Err(SystemCall("Failed to get processor count"))
        ELSE Ok(SaturatingSub(count, 1))

\* Variant: no cfg gate, the linux body on every platform.
max_cpu_id_ungated ==
    IF PresentMax.ok
    THEN [res |-> Ok(PresentMax.val), io |-> <<ReadPresent>>]
    ELSE [res |-> SysconfMax, io |-> <<ReadPresent, "sysconf">>]

\* max_cpu_id(): the result and the I/O it performs.
max_cpu_id ==
    IF platform # "linux" THEN [res |-> Err(NotSupported), io |-> <<>>]
    ELSE
      LET max == PresentMax
      IN  IF max.ok
          THEN [res |-> Ok(max.val), io |-> <<ReadPresent>>]
          ELSE [res |-> SysconfMax, io |-> <<ReadPresent, "sysconf">>]

\* usize + usize: beyond usize::MAX the sum panics in a build with overflow
\* checks and wraps around in one without.
UsizeAdd(a, b, overflow_checks) ==
    IF a + b <= USIZE_MAX THEN Ok(a + b)
    ELSE IF overflow_checks THEN Panic
    ELSE Ok((a + b) % (USIZE_MAX + 1))

\* cpu_count(): Ok(max_cpu_id()? + 1).
cpu_count(overflow_checks) ==
    LET m == max_cpu_id
    IN  IF m.res.kind = "Ok"
        THEN [res |-> UsizeAdd(m.res.val, 1, overflow_checks), io |-> m.io]
        ELSE m

----------------------------------------------------------------------------
(* isolated_cpus *)

\* Variant: an unreadable file is an error and a blank one is parsed.
isolated_cpus_strict ==
    IF platform # "linux" THEN [res |-> Err(NotSupported), io |-> <<>>]
    ELSE IF isolated.ok
    THEN [res |-> parse_cpu_range_list(Trim(isolated.content)),
          io |-> <<ReadIsolated>>]
    ELSE [res |-> Err(SystemCall("No such file or directory")),
          io |-> <<ReadIsolated>>]

isolated_cpus ==
    IF platform # "linux" THEN [res |-> Err(NotSupported), io |-> <<>>]
    ELSE IF isolated.ok
    THEN LET content == Trim(isolated.content)
         IN  IF content = <<>>
             THEN [res |-> Ok(<<>>), io |-> <<ReadIsolated>>]
             ELSE [res |-> parse_cpu_range_list(content), io |-> <<ReadIsolated>>]
    ELSE [res |-> Ok(<<>>), io |-> <<ReadIsolated>>]

----------------------------------------------------------------------------
(* set_cpu_affinity, cpu_affinity *)

\* Variant: the capacity test before the system-maximum test.
RECURSIVE ValidateCpusCapacityFirst(_, _)
ValidateCpusCapacityFirst(order, max_cpu) ==
    IF order = <<>> THEN [ok |-> TRUE]
    ELSE
      LET cpu == Head(order)
      IN  IF cpu >= CPU_SETSIZE
          THEN [ok |-> FALSE, err |-> InvalidCpu(cpu, CPU_SETSIZE - 1)]
          ELSE IF cpu > max_cpu
          THEN [ok |-> FALSE, err |-> InvalidCpu(cpu, max_cpu)]
          ELSE ValidateCpusCapacityFirst(Tail(order), max_cpu)

\* Variant: no capacity test.
RECURSIVE ValidateCpusNoCapacity(_, _)
ValidateCpusNoCapacity(order, max_cpu) ==
    IF order = <<>> THEN [ok |-> TRUE]
    ELSE
      LET cpu == Head(order)
      IN  IF cpu > max_cpu
          THEN [ok |-> FALSE, err |-> InvalidCpu(cpu, max_cpu)]
          ELSE ValidateCpusNoCapacity(Tail(order), max_cpu)

\* The validation loop `for &cpu in &cpus`, cpus iterated in `order`.
RECURSIVE ValidateCpus(_, _)
ValidateCpus(order, max_cpu) ==
    IF order = <<>> THEN [ok |-> TRUE]
    ELSE
      LET cpu == Head(order)
      IN  IF cpu > max_cpu
          THEN [ok |-> FALSE, err |-> InvalidCpu(cpu, max_cpu)]
          ELSE IF cpu >= CPU_SETSIZE
          THEN [ok |-> FALSE, err |-> InvalidCpu(cpu, CPU_SETSIZE - 1)]
          ELSE ValidateCpus(Tail(order), max_cpu)

\* Variant: only the lowest cpu of the set is inserted.
BuildCpuSetLowestOnly(cpus) ==
    IF \E cpu \in cpus : cpu >= CPU_SETSIZE
    THEN [ok |-> FALSE]
    ELSE [ok |-> TRUE,
          set |-> {cpu \in cpus : \A other \in cpus : cpu <= other}]

\* libc::CPU_SET over every cpu of the set, from the zeroed cpu_set_t: the
\* bits array is indexed by cpu, which panics at or beyond CPU_SETSIZE.
BuildCpuSet(cpus) ==
    IF \E cpu \in cpus : cpu >= CPU_SETSIZE
    THEN [ok |-> FALSE]
    ELSE [ok |-> TRUE, set |-> cpus]

\* Variant: max_cpu_id() called before the emptiness test.
set_cpu_affinity_max_first(arg, order, accepted, old) ==
    IF platform # "linux"
    THEN [res |-> Err(NotSupported), io |-> <<>>, mask |-> old]
    ELSE
      LET cpus == Range(arg)
          m == max_cpu_id
          v == ValidateCpus(order, m.res.val)
      IN  IF m.res.kind # "Ok"
          THEN [res |-> m.res, io |-> m.io, mask |-> old]
          ELSE IF cpus = {}
          THEN [res |-> Err(EmptyCpuList), io |-> m.io, mask |-> old]
          ELSE IF ~v.ok
          THEN [res |-> Err(v.err), io |-> m.io, mask |-> old]
          ELSE IF ~accepted
          THEN [res |-> Err(SystemCall("os error")),
                io |-> m.io \o <<"sched_setaffinity">>, mask |-> old]
          ELSE [res |-> Ok("unit"),
                io |-> m.io \o <<"sched_setaffinity">>, mask |-> cpus]

\* Variant: the IDs that pass validation are applied before the error of a
\* failing one is returned.
set_cpu_affinity_apply_valid(arg, order, accepted, old) ==
    IF platform # "linux"
    THEN [res |-> Err(NotSupported), io |-> <<>>, mask |-> old]
    ELSE
      LET cpus == Range(arg)
          m == max_cpu_id
          v == ValidateCpus(order, m.res.val)
          valid == {c \in cpus : c <= m.res.val /\ c < CPU_SETSIZE}
      IN  IF cpus = {}
          THEN [res |-> Err(EmptyCpuList), io |-> <<>>, mask |-> old]
          ELSE IF m.res.kind # "Ok"
          THEN [res |-> m.res, io |-> m.io, mask |-> old]
          ELSE IF ~v.ok
          THEN [res |-> Err(v.err), io |-> m.io \o <<"sched_setaffinity">>,
                mask |-> IF accepted /\ valid # {} THEN valid ELSE old]
          ELSE IF ~accepted
          THEN [res |-> Err(SystemCall("os error")),
                io |-> m.io \o <<"sched_setaffinity">>, mask |-> old]
          ELSE [res |-> Ok("unit"),
                io |-> m.io \o <<"sched_setaffinity">>, mask |-> cpus]

\* set_cpu_affinity(cpus) by a thread whose mask is `old`: the result, the
\* I/O performed and the thread's mask afterwards.  `order` is the HashSet's
\* iteration order, `accepted` whether the kernel accepts the request.
set_cpu_affinity(arg, order, accepted, old) ==
    IF platform # "linux"
    THEN [res |-> Err(NotSupported), io |-> <<>>, mask |-> old]
    ELSE
      LET cpus == Range(arg)
          m == max_cpu_id
          v == ValidateCpus(order, m.res.val)
          cpu_set == BuildCpuSet(cpus)
      IN  IF cpus = {}
          THEN [res |-> Err(EmptyCpuList), io |-> <<>>, mask |-> old]
          ELSE IF m.res.kind # "Ok"
          THEN [res |-> m.res, io |-> m.io, mask |-> old]
          ELSE IF ~v.ok
          THEN [res |-> Err(v.err), io |-> m.io, mask |-> old]
          ELSE IF ~cpu_set.ok
          THEN [res |-> Panic, io |-> m.io, mask |-> old]
          ELSE IF ~accepted
          THEN [res |-> Err(SystemCall("os error")),
                io |-> m.io \o <<"sched_setaffinity">>, mask |-> old]
          ELSE [res |-> Ok("unit"),
                io |-> m.io \o <<"sched_setaffinity">>, mask |-> cpu_set.set]

\* The scan `for cpu in 0..=max_cpu` with libc::CPU_ISSET, which indexes the
\* bits array by cpu and panics at or beyond CPU_SETSIZE.
ScanCpuSet(cpu_set, max_cpu) ==
    IF max_cpu >= CPU_SETSIZE
    THEN Panic
    ELSE Ok(SortUnstable({cpu \in 0..max_cpu : cpu \in cpu_set}))

\* cpu_affinity() by a thread whose mask is `cur`; `answered` is whether the
\* kernel answers sched_getaffinity.
cpu_affinity(answered, cur) ==
    IF platform # "linux" THEN [res |-> Err(NotSupported), io |-> <<>>]
    ELSE IF ~answered
    THEN [res |-> Err(SystemCall("os error")), io |-> <<"sched_getaffinity">>]
    ELSE
      LET m == max_cpu_id
      IN  IF m.res.kind # "Ok"
          THEN [res |-> m.res, io |-> <<"sched_getaffinity">> \o m.io]
          ELSE [res |-> ScanCpuSet(cur, m.res.val),
                io |-> <<"sched_getaffinity">> \o m.io]

----------------------------------------------------------------------------
(* Core topology *)

\* The per-CPU topology descriptor: absent (the CPU is not on the system, as
\* when offline), unreadable though the CPU is present, or naming the
\* physical core of the CPU.
AbsentCpu == [state |-> "absent"]
UnreadableCpu == [state |-> "unreadable"]
OnCore(core_id) == [state |-> "present", core_id |-> core_id]

\* No CPU has a descriptor.
NoTopology == <<>>

Descriptor(cpu) == IF cpu \in DOMAIN topology THEN topology[cpu] ELSE AbsentCpu

Min(S) == CHOOSE x \in S : \A y \in S : x <= y
Max(S) == CHOOSE x \in S : \A y \in S : x >= y

\* core_to_cpus_mapping(): for every CPU ID from 0 to max_cpu_id() the core ID
\* of its descriptor is read and the CPU inserted under it; an absent CPU is
\* skipped, an unreadable descriptor of a present CPU fails the call.
core_to_cpus_mapping ==
    IF platform # "linux" THEN [res |-> Err(NotSupported), io |-> <<>>]
    ELSE
      LET m == max_cpu_id
          cpus == 0 .. m.res.val
          found == {c \in cpus : Descriptor(c).state = "present"}
          keys == {Descriptor(c).core_id : c \in found}
      IN  IF m.res.kind # "Ok" THEN m
          ELSE IF \E c \in cpus : Descriptor(c).state = "unreadable"
          THEN [res |-> Err(SystemCall("Failed to read core id")),
                io |-> m.io \o <<"core_id">>]
          ELSE [res |-> Ok([k \in keys |->
                             {c \in found : Descriptor(c).core_id = k}]),
                io |-> m.io \o <<"core_id">>]

\* physical_core_count(): the number of keys of the Core Topology Map.
physical_core_count ==
    LET cm == core_to_cpus_mapping
    IN  IF cm.res.kind # "Ok" THEN cm
        ELSE [res |-> Ok(Cardinality(DOMAIN cm.res.val)), io |-> cm.io]

\* The lowest-numbered logical CPU of each of the cores.
Representatives(map, cores) == {Min(map[k]) : k \in cores}

\* set_affinity_physical_cores_only(core_ids) by a thread whose mask is `old`:
\* a requested core that is no key of the map fails the call with the highest
\* key observed (0 when there is none); else the representatives are handed
\* to set_cpu_affinity, whose HashSet is iterated in `order`.
set_affinity_physical_cores_only(core_ids, order, accepted, old) ==
    IF platform # "linux"
    THEN [res |-> Err(NotSupported), io |-> <<>>, mask |-> old]
    ELSE
      LET cm == core_to_cpus_mapping
          map == cm.res.val
          bad == SelectSeq(core_ids, LAMBDA k : k \notin DOMAIN map)
          max_core == IF DOMAIN map = {} THEN 0 ELSE Max(DOMAIN map)
          r == set_cpu_affinity(order, order, accepted, old)
      IN  IF cm.res.kind # "Ok"
          THEN [res |-> cm.res, io |-> cm.io, mask |-> old]
          ELSE IF bad # <<>>
          THEN [res |-> Err(InvalidPhysicalCore(Head(bad), max_core)),
                io |-> cm.io, mask |-> old]
          ELSE [res |-> r.res, io |-> cm.io \o r.io, mask |-> r.mask]

----------------------------------------------------------------------------
(* Inputs enumerated *)

\* The characters of the texts enumerated exhaustively up to MaxLen.
Alphabet == {"0", "1", "-", ",", " ", "a", "+"}

\* The texts of the module's tests (test_parse_cpu_range_list,
\* test_parse_cpu_range_list_errors) and a few more with other characters.
Examples ==
    { <<"5">>, <<"0", "-", "3">>, <<"5", "-", "7">>,
      <<"0", "-", "2", ",", "5", ",", "7", "-", "9">>,
      <<" ", "0", " ", "-", " ", "2", " ", ",", " ", "5", " ", ",", " ",
        "7", " ", "-", " ", "9", " ">>,
      <<"0", ",", "1", ",", "0", ",", "2", ",", "1">>,
      <<"0", ",", ",", "2">>, <<"3", "-", "3">>,
      <<"a", "b", "c">>, <<"0", "-", "a", "b", "c">>, <<"a", "b", "c", "-", "5">>,
      <<"-", "5">>, <<"5", "-">>, <<"-", "-">>,
      <<"2", "-", "3", ",", "6", "-", "7", "\n">>, <<"\n">>,
      <<"1", ".", "5">>, <<"0", ",", "x", ",", "-", "2">>,
      <<"4", ",", "2", "-", "a", ",", "b">>,
      <<"0", ",", "-", "1", ",", "1">>,
      <<"5", "-", "2">>, <<"0", ",", "5", "-", "2", ",", "7">> }

DigitChar(v) == CHOOSE c \in DigitChars : DigitVal(c) = v

\* The decimal text of n.
RECURSIVE Decimal(_)
Decimal(n) ==
    IF n < 10 THEN <<DigitChar(n)>>
    ELSE Decimal(n \div 10) \o <<DigitChar(n % 10)>>

\* Range-list texts with a number at and above usize::MAX.
WideExamples ==
    { <<"0", ",">> \o Decimal(USIZE_MAX),
      <<"0", ",">> \o Decimal(USIZE_MAX + 1),
      Decimal(USIZE_MAX + 1) \o <<"-", "0">> }

Texts ==
    UNION {[1..n -> Alphabet] : n \in 0..MaxLen} \cup Examples \cup WideExamples

\* Present files as sysfs writes them, for systems of 128, CPU_SETSIZE and
\* CPU_SETSIZE + 1 CPUs, and texts naming usize::MAX and usize::MAX + 1.
PresentExamples ==
    { <<"0", "-", "1", "2", "7", "\n">>, <<"0", "-", "1", "0", "2", "3", "\n">>,
      <<"0", "-", "1", "0", "2", "4", "\n">>, <<"7", "\n">>,
      Decimal(USIZE_MAX) \o <<"\n">>, <<"0", "-">> \o Decimal(USIZE_MAX),
      Decimal(USIZE_MAX + 1), <<"0", "-">> \o Decimal(USIZE_MAX + 1) }

\* The present files of the affinity specification: none, and systems of 1,
\* CPU_SETSIZE and CPU_SETSIZE + 1 CPUs.
PresentFiles ==
    { NoFile,
      File(<<"0", "\n">>),
      File(<<"0", "-", "1", "0", "2", "3", "\n">>),
      File(<<"0", "-", "1", "0", "2", "4", "\n">>) }

IsolatedFiles == { File(<<"0", "-", "1", "\n">>) }

\* What sysconf(_SC_NPROCESSORS_CONF) may return: -1 on failure, else a count.
ProcessorCounts == {-1, 0, 1, 2, CPU_SETSIZE + 1}

\* The core IDs a descriptor may name, and those a caller may request.
CoreIds == {0, 1}
RequestedCoreIds == CoreIds \cup {2}

Descriptors == {AbsentCpu, UnreadableCpu} \cup {OnCore(k) : k \in CoreIds}

\* Every assignment of a descriptor to the CPUs 0 .. MaxTopoCpu.
Topologies == [0 .. MaxTopoCpu -> Descriptors]

\* The core_ids passed to set_affinity_physical_cores_only.
CoreArgs == UNION {[1..n -> RequestedCoreIds] : n \in 0..2}

\* The requests of the threads that set their affinity concurrently: none,
\* one or both of the CPUs of the initial mask, and one beyond the capacity.
ThreadArgs ==
    { <<>>, <<0>>, <<CPU_SETSIZE - 1>>, <<0, CPU_SETSIZE - 1>>,
      <<CPU_SETSIZE - 1, CPU_SETSIZE>> }

NoCall ==
    [op |-> "none", thread |-> 0, arg |-> <<>>, res |-> [kind |-> "None"],
     io |-> <<>>]

Call(op, t, arg, r) ==
    [op |-> op, thread |-> t, arg |-> arg, res |-> r.res, io |-> r.io]

----------------------------------------------------------------------------
(* The calls *)

\* Variant: pid 0 taken as the process, whose ID is that of its main thread.
SchedTargetProcess(pid, t) == IF pid = 0 THEN MainThread ELSE pid

\* The thread a sched_setaffinity / sched_getaffinity call with this pid,
\* made by thread t, acts on: pid 0 is the calling thread.
SchedTarget(pid, t) == IF pid = 0 THEN t ELSE pid

\* set_cpu_affinity called by thread t with one of `args`.
SetCpuAffinityOf(t, args) ==
    \E arg \in args, accepted \in BOOLEAN :
      \E order \in Orders(Range(arg)) :
        LET target == SchedTarget(0, t)
            r == set_cpu_affinity(arg, order, accepted, mask[target])
        IN  /\ mask' = [mask EXCEPT ![target] = r.mask]
            /\ last' = Call("set_cpu_affinity", t, arg, r)
            /\ UNCHANGED <<platform, present, isolated, nprocessors, text, topology>>

SetCpuAffinity(t) == SetCpuAffinityOf(t, CpuArgs)

CpuAffinity(t) ==
    \E answered \in BOOLEAN :
      /\ last' = Call("cpu_affinity", t, <<>>,
                      cpu_affinity(answered, mask[SchedTarget(0, t)]))
      /\ UNCHANGED <<platform, present, isolated, nprocessors, mask, text,
                   topology>>

CoreToCpusMapping(t) ==
    /\ last' = Call("core_to_cpus_mapping", t, <<>>, core_to_cpus_mapping)
    /\ UNCHANGED <<platform, present, isolated, nprocessors, mask, text,
                   topology>>

PhysicalCoreCount(t) ==
    /\ last' = Call("physical_core_count", t, <<>>, physical_core_count)
    /\ UNCHANGED <<platform, present, isolated, nprocessors, mask, text,
                   topology>>

SetAffinityPhysicalCoresOnly(t) ==
    \E core_ids \in CoreArgs, accepted \in BOOLEAN :
      LET cm == core_to_cpus_mapping
          cpus == IF cm.res.kind = "Ok"
                     /\ Range(core_ids) \subseteq DOMAIN cm.res.val
                  THEN Representatives(cm.res.val, Range(core_ids))
                  ELSE {}
      IN  \E order \in Orders(cpus) :
            LET target == SchedTarget(0, t)
                r == set_affinity_physical_cores_only(core_ids, order,
                                                      accepted, mask[target])
            IN  /\ mask' = [mask EXCEPT ![target] = r.mask]
                /\ last' = Call("set_affinity_physical_cores_only", t,
                                core_ids, r)
                /\ UNCHANGED <<platform, present, isolated, nprocessors, text,
                               topology>>

MaxCpuId(t) ==
    /\ last' = Call("max_cpu_id", t, <<>>, max_cpu_id)
    /\ UNCHANGED <<platform, present, isolated, nprocessors, mask, text,
                   topology>>

CpuCount(t) ==
    \E overflow_checks \in BOOLEAN :
    /\ last' = Call("cpu_count", t, <<>>, cpu_count(overflow_checks))
    /\ UNCHANGED <<platform, present, isolated, nprocessors, mask, text,
                   topology>>

IsolatedCpus(t) ==
    /\ last' = Call("isolated_cpus", t, <<>>, isolated_cpus)
    /\ UNCHANGED <<platform, present, isolated, nprocessors, mask, text,
                   topology>>

\* The private parser, called on `text` (it exists in the linux build only).
ParseCpuRangeList(t) ==
    /\ platform = "linux"
    /\ last' = Call("parse_cpu_range_list", t, text,
                    [res |-> parse_cpu_range_list(text), io |-> <<>>])
    /\ UNCHANGED <<platform, present, isolated, nprocessors, mask, text,
                   topology>>

----------------------------------------------------------------------------
(* Specifications *)

\* The affinity controller: one thread calling the public functions on either
\* platform variant.
Init ==
    /\ platform \in {"linux", "other"}
    /\ present \in PresentFiles
    /\ isolated \in IsolatedFiles
    /\ nprocessors \in {-1, 2}
    /\ mask = [t \in Threads |-> InitialMask]
    /\ text = <<>>
    /\ topology = NoTopology
    /\ last = NoCall

Next ==
    \/ SetCpuAffinity(MainThread)
    \/ CpuAffinity(MainThread)
    \/ MaxCpuId(MainThread)
    \/ CpuCount(MainThread)
    \/ IsolatedCpus(MainThread)

Spec == Init /\ [][Next]_vars

\* The range-list parser and its caller isolated_cpus over every text: the
\* isolated file is absent or holds the text.
InitParse ==
    /\ platform = "linux"
    /\ present = NoFile
    /\ text \in Texts
    /\ topology = NoTopology
    /\ isolated \in {NoFile, File(text)}
    /\ nprocessors = 1
    /\ mask = [t \in Threads |-> InitialMask]
    /\ last = NoCall

NextParse ==
    \/ ParseCpuRangeList(MainThread)
    \/ IsolatedCpus(MainThread)

SpecParse == InitParse /\ [][NextParse]_vars

\* Several threads setting and reading their affinity in any interleaving, on
\* a system of CPU_SETSIZE CPUs and on one of CPU_SETSIZE + 1.
InitThreads ==
    /\ platform = "linux"
    /\ present \in {File(<<"0", "-">> \o Decimal(n) \o <<"\n">>) :
                       n \in {CPU_SETSIZE - 1, CPU_SETSIZE}}
    /\ isolated = NoFile
    /\ nprocessors = 2
    /\ mask = [t \in Threads |-> InitialMask]
    /\ text = <<>>
    /\ topology = NoTopology
    /\ last = NoCall

NextThreads ==
    \E t \in Threads :
      \/ SetCpuAffinityOf(t, ThreadArgs)
      \/ CpuAffinity(t)

SpecThreads == InitThreads /\ [][NextThreads]_vars

\* The physical cores: every topology of the CPUs 0 .. MaxTopoCpu, which the
\* present file names, or no present file and a failing processor-count query.
InitCores ==
    /\ platform \in {"linux", "other"}
    /\ \/ /\ present = File(<<"0", "-">> \o Decimal(MaxTopoCpu) \o <<"\n">>)
          /\ nprocessors = MaxTopoCpu + 1
       \/ /\ present = NoFile
          /\ nprocessors = -1
    /\ isolated = NoFile
    /\ mask = [t \in Threads |-> InitialMask]
    /\ text = <<>>
    /\ topology \in Topologies
    /\ last = NoCall

NextCores ==
    \/ CoreToCpusMapping(MainThread)
    \/ PhysicalCoreCount(MainThread)
    \/ SetAffinityPhysicalCoresOnly(MainThread)

SpecCores == InitCores /\ [][NextCores]_vars

\* Topology discovery over every present text and processor count.
InitTopology ==
    /\ platform = "linux"
    /\ text \in Texts \cup PresentExamples
    /\ topology = NoTopology
    /\ present \in {NoFile, File(text)}
    /\ isolated = NoFile
    /\ nprocessors \in ProcessorCounts
    /\ mask = [t \in Threads |-> InitialMask]
    /\ last = NoCall

NextTopology ==
    \/ MaxCpuId(MainThread)
    \/ CpuCount(MainThread)

SpecTopology == InitTopology /\ [][NextTopology]_vars

----------------------------------------------------------------------------
(* What a range-list text denotes, read off the text itself *)

\* s without the blanks before its first and after its last non-blank.
Strip(s) ==
    LET solid == {i \in 1..Len(s) : ~IsWhitespace(s[i])}
    IN  IF solid = {} THEN <<>>
        ELSE SubSeq(s, CHOOSE i \in solid : \A j \in solid : i <= j,
                       CHOOSE i \in solid : \A j \in solid : j <= i)

\* The comma-separated tokens of t, as the pairs of their bounding positions.
TokenBounds(t) ==
    LET stops == {0, Len(t) + 1} \cup {i \in 1..Len(t) : t[i] = ","}
    IN  {b \in stops \X stops :
           b[1] < b[2] /\ \A k \in stops : ~(b[1] < k /\ k < b[2])}

\* The non-empty tokens of t, blanks around them dropped.
Tokens(t) ==
    {Strip(SubSeq(t, b[1] + 1, b[2] - 1)) : b \in TokenBounds(t)} \ {<<>>}

RECURSIVE Pow10(_)
Pow10(n) == IF n = 0 THEN 1 ELSE 10 * Pow10(n - 1)

RECURSIVE SumTo(_, _)
SumTo(f, n) == IF n = 0 THEN 0 ELSE f[n] + SumTo(f, n - 1)

NumeralValue(s) ==
    LET d == IF s[1] = "+" THEN SubSeq(s, 2, Len(s)) ELSE s
    IN  SumTo([i \in 1..Len(d) |-> DigitVal(d[i]) * Pow10(Len(d) - i)], Len(d))

\* A numeral: decimal digits, which a '+' may precede, of a value that a
\* usize holds.
IsNumeral(s) ==
    LET d == IF Len(s) > 0 /\ s[1] = "+" THEN SubSeq(s, 2, Len(s)) ELSE s
    IN  /\ Len(d) > 0
        /\ \A i \in 1..Len(d) : d[i] \in DigitChars
        /\ NumeralValue(s) <= USIZE_MAX

\* The dashes of a token at which it reads as a-b, blanks around the dash
\* allowed.
RangeDashes(tok) ==
    {d \in 1..Len(tok) :
       /\ tok[d] = "-"
       /\ IsNumeral(Strip(SubSeq(tok, 1, d - 1)))
       /\ IsNumeral(Strip(SubSeq(tok, d + 1, Len(tok))))}

IsRangeToken(tok) == RangeDashes(tok) # {}

ValidToken(tok) == IsNumeral(tok) \/ IsRangeToken(tok)

\* The integers a valid token denotes.
TokenDenotes(tok) ==
    IF IsNumeral(tok) THEN {NumeralValue(tok)}
    ELSE LET d == CHOOSE d \in RangeDashes(tok) : TRUE
             a == NumeralValue(Strip(SubSeq(tok, 1, d - 1)))
             b == NumeralValue(Strip(SubSeq(tok, d + 1, Len(tok))))
         IN  {n \in 0..b : a <= n}

ValidText(t) == \A tok \in Tokens(t) : ValidToken(tok)

TextDenotes(t) == UNION {TokenDenotes(tok) : tok \in Tokens(t)}

IsAscending(q) == \A i \in 1..(Len(q) - 1) : q[i] < q[i + 1]

\* sub occurs in q as a contiguous run.
Contains(q, sub) ==
    \E i \in 0..(Len(q) - Len(sub)) : SubSeq(q, i + 1, i + Len(sub)) = sub

HasBlank(t) == \E i \in 1..Len(t) : IsWhitespace(t[i])

HasEmptyToken(t) == Cardinality(TokenBounds(t)) > Cardinality(Tokens(t))

----------------------------------------------------------------------------
(* Claims about the range-list parser and isolated_cpus (SpecParse) *)

\* C6: for every valid range-list text, parse_cpu_range_list returns the
\* ascending, duplicate-free sequence of exactly the integers its non-empty
\* tokens denote; empty tokens and blanks contribute nothing and are no error.
C6_ParseValidText ==
    (last.op = "parse_cpu_range_list" /\ ValidText(last.arg)) =>
        /\ last.res.kind = "Ok"
        /\ IsAscending(last.res.val)
        /\ Range(last.res.val) = TextDenotes(last.arg)

\* C6 witness: a valid text with blanks around tokens and dash, ranges and a
\* bare integer was parsed to the seven IDs it denotes.
C6_Witness ==
    /\ last.op = "parse_cpu_range_list"
    /\ ValidText(last.arg)
    /\ HasBlank(last.arg)
    /\ \E tok \in Tokens(last.arg) : IsRangeToken(tok)
    /\ last.res = Ok(<<0, 1, 2, 5, 7, 8, 9>>)

\* C6 witness for the empty tokens: a valid text with an empty token and a
\* range was parsed.
C6_WitnessEmptyToken ==
    /\ last.op = "parse_cpu_range_list"
    /\ ValidText(last.arg)
    /\ HasEmptyToken(last.arg)
    /\ last.res.kind = "Ok"
    /\ Len(last.res.val) >= 2

\* C7: when some non-empty token is not numeric, or is a range lacking an
\* endpoint or with a bound that is no integer, parse_cpu_range_list fails
\* with ParseError, its detail holding the text of such a token, and returns
\* no CPUs, whatever valid tokens come before or after.
C7_ParseBadToken ==
    (last.op = "parse_cpu_range_list" /\ ~ValidText(last.arg)) =>
        /\ last.res.kind = "Err"
        /\ last.res.err.type = "ParseError"
        /\ \E tok \in Tokens(last.arg) :
             ~ValidToken(tok) /\ Contains(last.res.err.detail, tok)

\* C7 witness: a text with a valid token before and after a range lacking its
\* first endpoint was rejected.
C7_Witness ==
    /\ last.op = "parse_cpu_range_list"
    /\ last.arg = <<"0", ",", "-", "1", ",", "1">>
    /\ last.res = Err(ParseError("Invalid CPU range: ", <<"-", "1">>))

\* C8: isolated_cpus() is Ok with no CPUs when the isolated file is absent,
\* unreadable or blank; otherwise it is what parse_cpu_range_list returns for
\* the trimmed text: an ascending sequence or a ParseError, nothing else.
C8_IsolatedCpus ==
    last.op = "isolated_cpus" =>
        IF ~isolated.ok \/ Strip(isolated.content) = <<>>
        THEN last.res = Ok(<<>>)
        ELSE /\ last.res = parse_cpu_range_list(Strip(isolated.content))
             /\ \/ last.res.kind = "Ok" /\ IsAscending(last.res.val)
                \/ last.res.kind = "Err" /\ last.res.err.type = "ParseError"

\* C8 witness: the isolated file was absent and the call returned no CPUs.
C8_Witness ==
    /\ last.op = "isolated_cpus"
    /\ ~isolated.ok
    /\ last.res = Ok(<<>>)

----------------------------------------------------------------------------
(* Claims about max_cpu_id (SpecTopology) *)

Dashes(t) == {i \in 1..Len(t) : t[i] = "-"}

\* The part of a present text that names the highest CPU: what stands between
\* its first dash and the next one (or the end), the whole text without dash.
HighPart(t) ==
    LET c == Strip(t)
        first == CHOOSE d \in Dashes(c) : \A e \in Dashes(c) : d <= e
        after == {e \in Dashes(c) \cup {Len(c) + 1} : e > first}
        stop == CHOOSE e \in after : \A f \in after : e <= f
    IN  IF Dashes(c) = {} THEN c ELSE SubSeq(c, first + 1, stop - 1)

\* The present text is unavailable or names no highest CPU.
PresentUnusable == ~present.ok \/ ~IsNumeral(HighPart(present.content))

IsSystemCallErr(r) == r.kind = "Err" /\ r.err.type = "SystemCall"

\* C9: with a readable present text that is an integer n, or low-high with
\* both integers, max_cpu_id() returns n, respectively high, and does not
\* make the processor-count query.
C9_PresentText ==
    (last.op = "max_cpu_id" /\ present.ok) =>
        LET c == Strip(present.content)
        IN  /\ IsNumeral(c) =>
                 /\ last.res.kind = "Ok"
                 /\ last.res.val = NumeralValue(c)
                 /\ "sysconf" \notin Range(last.io)
            /\ \A d \in Dashes(c) :
                 (IsNumeral(SubSeq(c, 1, d - 1))
                    /\ IsNumeral(SubSeq(c, d + 1, Len(c)))) =>
                   /\ last.res.kind = "Ok"
                   /\ last.res.val = NumeralValue(SubSeq(c, d + 1, Len(c)))
                   /\ "sysconf" \notin Range(last.io)

\* C9 witness: the present text "0-127\n" gave 127 with the file read only,
\* though the processor count differs.
C9_Witness ==
    /\ last.op = "max_cpu_id"
    /\ present = File(<<"0", "-", "1", "2", "7", "\n">>)
    /\ nprocessors = 2
    /\ last.res = Ok(127)
    /\ last.io = <<ReadPresent>>

\* C10 as stated: with the present text unavailable or unparsable,
\* max_cpu_id() makes the processor-count query and returns count - 1, or 0
\* for a non-positive count; it fails with SystemCall only when the file read
\* failed and the query failed too.
C10_FallbackSaturates ==
    (last.op = "max_cpu_id" /\ PresentUnusable) =>
        /\ "sysconf" \in Range(last.io)
        /\ IF ~present.ok /\ nprocessors < 0
           THEN IsSystemCallErr(last.res)
           ELSE /\ last.res.kind = "Ok"
                /\ last.res.val = IF nprocessors > 0 THEN nprocessors - 1 ELSE 0

\* C10 amended: with the present text unavailable or unparsable,
\* max_cpu_id() makes the processor-count query and returns count - 1 for a
\* positive count; for a non-positive count it fails with SystemCall, whether
\* the file was unreadable or only unparsable.  It fails in no other case.
C10_FallbackOrError ==
    last.op = "max_cpu_id" =>
        /\ PresentUnusable =>
             /\ "sysconf" \in Range(last.io)
             /\ IF nprocessors > 0
                THEN last.res.kind = "Ok" /\ last.res.val = nprocessors - 1
                ELSE IsSystemCallErr(last.res)
        /\ last.res.kind # "Ok" =>
             /\ IsSystemCallErr(last.res)
             /\ PresentUnusable
             /\ nprocessors <= 0

\* C10 witness: the present text was read but names no CPU, the processor
\* count was 0, and max_cpu_id() failed with SystemCall.
C10_Witness ==
    /\ last.op = "max_cpu_id"
    /\ present.ok
    /\ PresentUnusable
    /\ nprocessors = 0
    /\ IsSystemCallErr(last.res)

\* C10 witness of the fallback: no present file, two processors, result 1.
C10_WitnessFallback ==
    /\ last.op = "max_cpu_id"
    /\ ~present.ok
    /\ nprocessors = 2
    /\ last.res = Ok(1)
    /\ last.io = <<ReadPresent, "sysconf">>

----------------------------------------------------------------------------
(* Claims about set_cpu_affinity and cpu_affinity (Spec) *)

MaxCpuIdOk == max_cpu_id.res.kind = "Ok"

IsInvalidCpuErr(r) == r.kind = "Err" /\ r.err.type = "InvalidCpu"

\* The state is that of a set_cpu_affinity(S) that returned Ok, with every ID
\* of S in [0, max_cpu_id()].
SetReturnedOk ==
    /\ last.op = "set_cpu_affinity"
    /\ last.res.kind = "Ok"
    /\ MaxCpuIdOk
    /\ \A cpu \in Range(last.arg) : cpu <= max_cpu_id.res.val

\* The step is a cpu_affinity() of thread t that the kernel answered.
GetAnswered(t) ==
    /\ last'.op = "cpu_affinity"
    /\ last'.thread = t
    /\ last'.res.kind # "Err"

\* C1: after set_cpu_affinity(S) returned Ok, S within [0, max_cpu_id()], the
\* cpu_affinity() that follows immediately on the same thread returns exactly
\* the IDs of S, ascending and without duplicates, whatever the mask was.
C1_SetThenGet ==
    [][(SetReturnedOk /\ GetAnswered(last.thread)) =>
          /\ last'.res.kind = "Ok"
          /\ IsAscending(last'.res.val)
          /\ Range(last'.res.val) = Range(last.arg)]_vars

\* C1 where max_cpu_id() is below CPU_SETSIZE: there the read-back is S.
C1_SetThenGetBelowCapacity ==
    [][(SetReturnedOk /\ max_cpu_id.res.val < CPU_SETSIZE
          /\ GetAnswered(last.thread)) =>
          /\ last'.res.kind = "Ok"
          /\ IsAscending(last'.res.val)
          /\ Range(last'.res.val) = Range(last.arg)]_vars

\* C2: on the supported platform set_cpu_affinity of an empty list fails with
\* EmptyCpuList in every system state, before anything is read or called.
C2_EmptyCpuList ==
    (last.op = "set_cpu_affinity" /\ platform = "linux" /\ Range(last.arg) = {}) =>
        /\ last.res.kind = "Err"
        /\ last.res.err = EmptyCpuList
        /\ last.io = <<>>

\* C2 witness: an empty list was rejected in a state where max_cpu_id() fails.
C2_Witness ==
    /\ last.op = "set_cpu_affinity"
    /\ platform = "linux"
    /\ last.arg = <<>>
    /\ ~MaxCpuIdOk
    /\ last.res = Err(EmptyCpuList)

\* C3: set_cpu_affinity([id]) with id > max_cpu_id() fails with
\* InvalidCpu{cpu: id, max: max_cpu_id()}.
C3_AboveSystemMax ==
    (/\ last.op = "set_cpu_affinity"
     /\ MaxCpuIdOk
     /\ Cardinality(Range(last.arg)) = 1
     /\ \A id \in Range(last.arg) : id > max_cpu_id.res.val) =>
        /\ last.res.kind = "Err"
        /\ \A id \in Range(last.arg) :
             last.res.err = InvalidCpu(id, max_cpu_id.res.val)

\* C3 witness: an ID above a system maximum that itself is at the mask
\* capacity was rejected with the system maximum.
C3_Witness ==
    /\ last.op = "set_cpu_affinity"
    /\ last.arg = <<CPU_SETSIZE + 1>>
    /\ max_cpu_id.res = Ok(CPU_SETSIZE)
    /\ last.res = Err(InvalidCpu(CPU_SETSIZE + 1, CPU_SETSIZE))

BeyondCapacity(arg) == \E cpu \in Range(arg) : cpu >= CPU_SETSIZE

\* C4 as stated: whenever an ID passed is at or beyond CPU_SETSIZE, the call
\* fails with InvalidCpu{cpu, max: CPU_SETSIZE - 1}, whatever max_cpu_id()
\* reports.
C4_CapacityAlwaysReported ==
    (last.op = "set_cpu_affinity" /\ MaxCpuIdOk /\ BeyondCapacity(last.arg)) =>
        /\ IsInvalidCpuErr(last.res)
        /\ last.res.err.cpu \in Range(last.arg)
        /\ last.res.err.max = CPU_SETSIZE - 1

\* C4 amended: whenever an ID passed is at or beyond CPU_SETSIZE and
\* max_cpu_id() succeeds, the call fails with InvalidCpu for one of the IDs
\* passed: with max: CPU_SETSIZE - 1 when that ID is at or beyond CPU_SETSIZE
\* and does not exceed max_cpu_id(), with max: max_cpu_id() when it exceeds
\* max_cpu_id().
C4_CapacityOrSystemMax ==
    (last.op = "set_cpu_affinity" /\ MaxCpuIdOk /\ BeyondCapacity(last.arg)) =>
        /\ IsInvalidCpuErr(last.res)
        /\ last.res.err.cpu \in Range(last.arg)
        /\ IF last.res.err.cpu > max_cpu_id.res.val
           THEN last.res.err.max = max_cpu_id.res.val
           ELSE /\ last.res.err.cpu >= CPU_SETSIZE
                /\ last.res.err.max = CPU_SETSIZE - 1

\* C4 witness: with a system maximum above the capacity, an ID at the
\* capacity, passed with a valid one, was rejected with max CPU_SETSIZE - 1.
C4_Witness ==
    /\ last.op = "set_cpu_affinity"
    /\ max_cpu_id.res = Ok(CPU_SETSIZE)
    /\ Range(last.arg) = {0, CPU_SETSIZE}
    /\ last.res = Err(InvalidCpu(CPU_SETSIZE, CPU_SETSIZE - 1))

\* C5: on a platform without the facility every call (set_cpu_affinity,
\* cpu_affinity, max_cpu_id, cpu_count, isolated_cpus, whatever the input)
\* returns NotSupported, leaves every affinity mask as it was and performs no
\* syscall and no file read.
C5_NotSupported ==
    [][platform = "other" =>
          /\ last'.res.kind = "Err"
          /\ last'.res.err.type = "NotSupported"
          /\ last'.io = <<>>
          /\ mask' = mask]_vars

\* C5 witness: on the other platform a set_cpu_affinity of valid IDs returned
\* NotSupported and the mask is the initial one.
C5_Witness ==
    /\ platform = "other"
    /\ last.op = "set_cpu_affinity"
    /\ last.arg = <<0>>
    /\ last.res = Err(NotSupported)
    /\ last.io = <<>>
    /\ mask[MainThread] = InitialMask

\* C11: cpu_count() returns m + 1 whenever max_cpu_id() returns m, for every m
\* a usize holds, and the error of max_cpu_id() whenever that fails.
C11_CountIsMaxPlusOne ==
    last.op = "cpu_count" =>
        IF MaxCpuIdOk
        THEN last.res = Ok(max_cpu_id.res.val + 1)
        ELSE last.res = max_cpu_id.res

\* The part of C11 that holds: below usize::MAX the count is m + 1, and the
\* error of max_cpu_id() is passed on.
C11_CountBelowUsizeMax ==
    last.op = "cpu_count" =>
        IF MaxCpuIdOk
        THEN max_cpu_id.res.val < USIZE_MAX =>
                 last.res = Ok(max_cpu_id.res.val + 1)
        ELSE last.res = max_cpu_id.res

\* cpu_count() was called with max_cpu_id() at usize::MAX.
C11_WitnessUsizeMax ==
    /\ last.op = "cpu_count"
    /\ max_cpu_id.res = Ok(USIZE_MAX)
    /\ last.res \in {Panic, Ok(0)}

\* The IDs passed do not pass the validation of set_cpu_affinity: there is
\* none, max_cpu_id() fails, or one is above max_cpu_id() or at or beyond the
\* capacity.
FailsValidation(arg) ==
    \/ Range(arg) = {}
    \/ ~MaxCpuIdOk
    \/ \E c \in Range(arg) : c > max_cpu_id.res.val \/ c >= CPU_SETSIZE

\* The result is one of the validation: EmptyCpuList, InvalidCpu, or the
\* error of max_cpu_id().
IsValidationErr(r) ==
    \/ r = Err(EmptyCpuList)
    \/ IsInvalidCpuErr(r)
    \/ ~MaxCpuIdOk /\ r = max_cpu_id.res

\* C15: a set_cpu_affinity call whose IDs fail validation (none passed,
\* max_cpu_id() failing, or an invalid ID, alone or mixed with valid ones)
\* returns the validation's error, makes no set-mask syscall and leaves the
\* affinity mask of the calling thread, and of every other, as it was.
C15_FailedValidationKeepsMask ==
    [][(/\ platform = "linux"
        /\ last'.op = "set_cpu_affinity"
        /\ FailsValidation(last'.arg) \/ IsValidationErr(last'.res))
       => /\ FailsValidation(last'.arg)
          /\ IsValidationErr(last'.res)
          /\ mask' = mask
          /\ \A i \in 1..Len(last'.io) : last'.io[i] # "sched_setaffinity"]_vars

\* C15 witness: a thread pinned to CPU_SETSIZE - 1 asked for CPU 0 together
\* with an ID at the capacity; the call failed and the mask is as before.
C15_Witness ==
    /\ last.op = "set_cpu_affinity"
    /\ Range(last.arg) = {0, CPU_SETSIZE}
    /\ IsInvalidCpuErr(last.res)
    /\ mask[MainThread] = {CPU_SETSIZE - 1}

\* C16: no mask operation is performed on an ID at or beyond the capacity, so
\* neither set_cpu_affinity nor cpu_affinity faults, in any system state.
C16_NoFault ==
    last.op \in {"set_cpu_affinity", "cpu_affinity"} => last.res # Panic

\* The part of C16 that holds: set_cpu_affinity never faults, and whenever it
\* reaches the CPU_SET loop every ID it inserts is below the capacity.
C16_SetNeverFaults ==
    last.op = "set_cpu_affinity" =>
        /\ last.res # Panic
        /\ last.res.kind = "Ok" => \A c \in Range(last.arg) : c < CPU_SETSIZE

\* cpu_affinity() was called, and answered by the kernel, with max_cpu_id()
\* at or beyond the capacity.
C16_WitnessScanBeyondCapacity ==
    /\ last.op = "cpu_affinity"
    /\ MaxCpuIdOk
    /\ max_cpu_id.res.val >= CPU_SETSIZE
    /\ last.res = Panic

\* A range token whose start is greater than its end, both numerals.
IsReversedToken(tok) ==
    /\ IsRangeToken(tok)
    /\ LET d == CHOOSE d \in RangeDashes(tok) : TRUE
       IN  NumeralValue(Strip(SubSeq(tok, 1, d - 1)))
             > NumeralValue(Strip(SubSeq(tok, d + 1, Len(tok))))

ReversedTokens(t) == {tok \in Tokens(t) : IsReversedToken(tok)}

\* C17: a text with a range token whose start is greater than its end, every
\* token being valid, is parsed without error to the IDs of the other tokens
\* alone (to nothing if there is no other token).
C17_ReversedRangeIsEmpty ==
    (/\ last.op = "parse_cpu_range_list"
     /\ ValidText(last.arg)
     /\ ReversedTokens(last.arg) # {})
    => /\ last.res.kind = "Ok"
       /\ IsAscending(last.res.val)
       /\ Range(last.res.val) =
            UNION {TokenDenotes(tok) :
                     tok \in Tokens(last.arg) \ ReversedTokens(last.arg)}

\* C17 witness: "0,5-2,7" was parsed to 0 and 7.
C17_Witness ==
    /\ last.op = "parse_cpu_range_list"
    /\ last.arg = <<"0", ",", "5", "-", "2", ",", "7">>
    /\ ReversedTokens(last.arg) = {<<"5", "-", "2">>}
    /\ last.res = Ok(<<0, 7>>)

\* "5-2" alone was parsed to no ID.
C17_WitnessAlone ==
    /\ last.op = "parse_cpu_range_list"
    /\ last.arg = <<"5", "-", "2">>
    /\ last.res = Ok(<<>>)

\* C12: in any interleaving of set_cpu_affinity and cpu_affinity calls by
\* several threads, a call by one thread leaves the mask of every other thread
\* as it was; a set_cpu_affinity makes the caller's mask the IDs passed when
\* it returns Ok and leaves it otherwise; a cpu_affinity leaves the caller's
\* mask and, when it returns Ok, returns exactly the caller's own mask.
C12_OnlyCallingThread ==
    [][\A t \in Threads :
         last'.thread = t =>
           /\ \A u \in Threads \ {t} : mask'[u] = mask[u]
           /\ last'.op = "set_cpu_affinity" =>
                 mask'[t] = IF last'.res.kind = "Ok"
                            THEN Range(last'.arg) ELSE mask[t]
           /\ last'.op = "cpu_affinity" =>
                 /\ mask'[t] = mask[t]
                 /\ last'.res.kind = "Ok" =>
                       /\ IsAscending(last'.res.val)
                       /\ Range(last'.res.val) = mask[t]]_vars

\* C12 witness: the main thread, pinned to CPU 0, read back CPU 0 alone while
\* the second thread is pinned to CPU_SETSIZE - 1.
C12_Witness ==
    /\ last.op = "cpu_affinity"
    /\ last.thread = MainThread
    /\ last.res = Ok(<<0>>)
    /\ mask[MainThread] = {0}
    /\ mask[NumThreads] = {CPU_SETSIZE - 1}

\* No present CPU has an unreadable topology descriptor.
TopologyReadable ==
    \A c \in DOMAIN topology : topology[c].state # "unreadable"

\* The entries of the map that hold CPU c.
EntriesOf(map, c) == {k \in DOMAIN map : c \in map[k]}

\* C13: core_to_cpus_mapping() partitions the present CPUs.  The present file
\* names the CPUs of the topology, so these are the IDs in [0, max_cpu_id()]:
\* the call fails only for an unreadable descriptor of a present CPU, never
\* for an absent CPU, and in its result every present CPU is in the CPU set of
\* exactly one Core ID and every absent CPU in none.
C13_MappingPartitionsPresent ==
    (last.op = "core_to_cpus_mapping" /\ platform = "linux" /\ MaxCpuIdOk) =>
        /\ last.res.kind = "Ok" <=> TopologyReadable
        /\ last.res.kind = "Ok" =>
              \A c \in DOMAIN topology :
                Cardinality(EntriesOf(last.res.val, c)) =
                  IF topology[c].state = "present" THEN 1 ELSE 0

\* C13 witness: with CPU 1 absent and CPUs 0 and 2 siblings on core 0 the
\* mapping was returned, CPUs 0 and 2 under core 0 and CPU 1 nowhere.
C13_Witness ==
    /\ last.op = "core_to_cpus_mapping"
    /\ topology[0] = OnCore(0)
    /\ topology[1] = AbsentCpu
    /\ topology[2] = OnCore(0)
    /\ last.res.kind = "Ok"
    /\ {0, 2} \subseteq last.res.val[0]
    /\ EntriesOf(last.res.val, 1) = {}

\* The Core Topology Map of the system, read off the descriptors: its keys,
\* and the logical CPUs of a core.
CoreKeys ==
    {topology[c].core_id :
       c \in {d \in DOMAIN topology : topology[d].state = "present"}}

SiblingsOf(k) ==
    {c \in DOMAIN topology :
       topology[c].state = "present" /\ topology[c].core_id = k}

\* The lowest-numbered logical CPU of core k.
LowestOf(k) == CHOOSE c \in SiblingsOf(k) : \A d \in SiblingsOf(k) : c <= d

IsInvalidPhysicalCoreErr(r) ==
    r.kind = "Err" /\ r.err.type = "InvalidPhysicalCore"

NoSetMaskSyscall(io) == \A i \in 1..Len(io) : io[i] # "sched_setaffinity"

\* C14: with the Core Topology Map available, a call of
\* set_affinity_physical_cores_only whose requested Core IDs are all keys of
\* the map ends as set_cpu_affinity ends on the lowest-numbered logical CPU of
\* each requested core (Ok with exactly these as the caller's mask, or that
\* call's error with the mask as it was, never InvalidPhysicalCore); a call
\* with a requested Core ID that is no key fails with InvalidPhysicalCore for
\* such an ID, never with a system-call error, makes no set-mask syscall and
\* changes no mask.
C14_PhysicalCoresOnly ==
    [][(/\ last'.op = "set_affinity_physical_cores_only"
        /\ platform = "linux"
        /\ MaxCpuIdOk
        /\ TopologyReadable)
       => LET req == Range(last'.arg)
              t == last'.thread
          IN  IF req \subseteq CoreKeys
              THEN /\ ~IsInvalidPhysicalCoreErr(last'.res)
                   /\ \A u \in Threads \ {t} : mask'[u] = mask[u]
                   /\ IF last'.res.kind = "Ok"
                      THEN /\ req # {}
                           /\ mask'[t] = {LowestOf(k) : k \in req}
                      ELSE /\ mask'[t] = mask[t]
                           /\ last'.res = Err(EmptyCpuList) <=> req = {}
                           /\ req # {} => IsSystemCallErr(last'.res)
              ELSE /\ IsInvalidPhysicalCoreErr(last'.res)
                   /\ last'.res.err.core \in req \ CoreKeys
                   /\ NoSetMaskSyscall(last'.io)
                   /\ mask' = mask]_vars

\* C14 witness: with CPUs 0 and 1 siblings on core 0 and CPU 2 on core 1, the
\* request of cores 0 and 1 pinned the thread to CPUs 0 and 2.
C14_Witness ==
    /\ last.op = "set_affinity_physical_cores_only"
    /\ topology[0] = OnCore(0)
    /\ topology[1] = OnCore(0)
    /\ topology[2] = OnCore(1)
    /\ Range(last.arg) = {0, 1}
    /\ last.res.kind = "Ok"
    /\ mask[MainThread] = {0, 2}

\* A request naming core 2, which no CPU is on, failed with
\* InvalidPhysicalCore and the mask is the initial one.
C14_WitnessInvalidCore ==
    /\ last.op = "set_affinity_physical_cores_only"
    /\ TopologyReadable
    /\ CoreKeys = {0, 1}
    /\ last.arg = <<0, 2>>
    /\ last.res = Err(InvalidPhysicalCore(2, 1))
    /\ mask[MainThread] = InitialMask

====
